---- MODULE Spec2Model ----
(***************************************************************************)
(* Model of the stake-stats dashboard: the StakeStats view controller of   *)
(* src/components/homepage.tsx (its data-refresh and request-cancellation  *)
(* lifecycle).  The file holds two revisions of the component; `version`   *)
(* says which one is running.  Revision 1 wires the handle*Change handlers *)
(* into the UI, revision 2 passes the raw state setters to StatsSection    *)
(* and adds a manual refresh button.                                       *)
(***************************************************************************)
EXTENDS Integers, Sequences, FiniteSets, TLC

VARIABLES version, phase, timeframe, stats, selectedGame, loading, activeTab,
          error, abortControllerRef, requests, intervals, intervalId,
          lastResponse, fetched,
          relay, winLossRatio, exportLoading, exportData, artifact

\* the state outside the StakeStats component: the relay's handled requests,
\* the ratio StatsContent shows, and the export of StatsSection
others == <<relay, winLossRatio, exportLoading, exportData, artifact>>

vars == <<version, phase, timeframe, stats, selectedGame, loading, activeTab,
          error, abortControllerRef, requests, intervals, intervalId,
          lastResponse, fetched, others>>

(***************************************************************************)
(* Bounds of the model.                                                    *)
(***************************************************************************)
\* number of fetchStats requests awaiting their response at one time
MaxPending == 3
\* number of distinct statistics snapshots the upstream serves per endpoint
MaxSnapshot == 1
\* number of requests the relay handles in one behaviour
MaxRelay == 2
\* largest number of wins and of losses in the statistics rendered
MaxCount == 8

(***************************************************************************)
(* Program constants.                                                      *)
(***************************************************************************)
timeframes == <<"overall", "hourly", "weekly", "monthly">>

games == <<"Dice", "Mines", "Baccarat", "Blackjack", "Crash", "Diamonds",
           "Hilo", "Keno", "Limbo", "Plinko", "Roulette", "Slide", "Wheel">>

tabs == {"overall", "game", "help", "realities", "about"}

Versions == {1, 2}

\* String.prototype.toLowerCase on the strings the program handles
LowerCaseOf == [Dice |-> "dice", Mines |-> "mines", Baccarat |-> "baccarat",
                Blackjack |-> "blackjack", Crash |-> "crash",
                Diamonds |-> "diamonds", Hilo |-> "hilo", Keno |-> "keno",
                Limbo |-> "limbo", Plinko |-> "plinko",
                Roulette |-> "roulette", Slide |-> "slide", Wheel |-> "wheel"]

toLowerCase(s) == IF s \in DOMAIN LowerCaseOf THEN LowerCaseOf[s] ELSE s

\* the buttons of the timeframe bar the model presses
TimeframeInputs == {timeframes[1], timeframes[2]}

\* the values of the SelectItems the model picks (value={game.toLowerCase()})
GameInputs == {toLowerCase(games[1])}

(***************************************************************************)
(* JavaScript values.                                                      *)
(***************************************************************************)
\* null, as held by `stats` and as parsed from the body "null"
null == [type |-> "null"]

\* null as held by `error` (error is string | null)
errNull == "<null>"

\* a JSON object answering a request to endpoint e (snapshot n of it)
JsonObject(e, n) == [type |-> "object", endpoint |-> e, n |-> n]

JsonArray == [type |-> "array"]

JsonNumber(k) == [type |-> "number", k |-> k]

\* a body response.json() cannot parse
Unparseable == [type |-> "unparseable"]

\* the typeof operator
typeof(d) == IF d.type \in {"object", "array", "null"} THEN "object" ELSE d.type

\* !d
falsy(d) == d.type = "null" \/ (d.type = "number" /\ d.k = 0)

\* the bodies a response to a request for endpoint e may carry
Bodies(e) == {JsonObject(e, n) : n \in 1..MaxSnapshot}
             \cup {JsonArray, null, JsonNumber(1), Unparseable}

Statuses == {200, 404}

\* response.ok
ok(status) == status >= 200 /\ status <= 299

\* `Server responded with status ${response.status}`
StatusMessage(status) ==
    CASE status = 404 -> "Server responded with status 404"
      [] OTHER -> "Server responded with status"

\* the awaited fetch rejects with an AbortError: its signal was aborted
AbortError == [kind |-> "abort", status |-> 0, body |-> null]

\* no fetch has settled yet
NoOutcome == [kind |-> "none", status |-> 0, body |-> null]

\* the outcomes of a fetch whose signal was not aborted
\* (the body of a response that is not ok is never read)
Outcomes(e) == {[kind |-> "network", status |-> 0, body |-> null]}
               \cup {[kind |-> "response", status |-> s, body |-> b] :
                        s \in {t \in Statuses : ok(t)}, b \in Bodies(e)}
               \cup {[kind |-> "response", status |-> s, body |-> JsonObject(e, 1)] :
                        s \in {t \in Statuses : ~ok(t)}}

(***************************************************************************)
(* fetchStats.                                                             *)
(***************************************************************************)
\* the values a fetchStats closure captured (its useCallback dependencies)
Closure(tf, game, tab) == [timeframe |-> tf, selectedGame |-> game, activeTab |-> tab]

CurrentClosure == Closure(timeframe, selectedGame, activeTab)

\* an endpoint choice that looks at the selected game only (faulty variant)
EndpointAnyTab(c) ==
    IF c.selectedGame # ""
    THEN <<"stats", "game", c.timeframe, toLowerCase(c.selectedGame)>>
    ELSE <<"stats", c.timeframe>>

\* the request target, as a list of path segments under /api/proxy
Endpoint(c) ==
    IF c.activeTab = "game" /\ c.selectedGame # ""
    THEN <<"stats", "game", c.timeframe, toLowerCase(c.selectedGame)>>
    ELSE <<"stats", c.timeframe>>

\* AbortController.abort() of the controller of request r (0: no controller)
Abort(reqs, r) == IF r = 0 THEN reqs ELSE [reqs EXCEPT ![r].aborted = TRUE]

\* `requests` lists, in the order of their issue, the fetchStats calls still
\* awaiting their fetch, and the latest call whatever its position; a call
\* that has ended is dropped from it once a later call has been issued
Forget(reqs) ==
    IF reqs # <<>> /\ reqs[Len(reqs)].pc # "await"
    THEN SubSeq(reqs, 1, Len(reqs) - 1)
    ELSE reqs

\* call r ends at pc: it stays listed if it is the latest call
Ended(reqs, r, pc) ==
    IF r = Len(reqs)
    THEN [reqs EXCEPT ![r].pc = pc]
    ELSE SubSeq(reqs, 1, r - 1) \o SubSeq(reqs, r + 1, Len(reqs))

\* a fetchStats call that has just reached `await fetch(endpoint, ...)`
NewRequest(c) == [endpoint |-> Endpoint(c), aborted |-> FALSE, pc |-> "await"]

\* the part of the state fetchStats and the effect work on
Cur == [abortControllerRef |-> abortControllerRef, requests |-> requests,
        loading |-> loading, error |-> error,
        intervals |-> intervals, intervalId |-> intervalId,
        fetched |-> <<>>]

\* fetchStats without the abort of the previous controller (faulty variant)
FetchStatsNoAbort(S, c) ==
    LET reqs == Forget(S.requests)
    IN [S EXCEPT !.abortControllerRef = Len(reqs) + 1,
                 !.requests = Append(reqs, NewRequest(c)),
                 !.loading = TRUE,
                 !.error = errNull,
                 !.fetched = Append(@, Endpoint(c))]

\* the synchronous part of fetchStats, up to `await fetch(...)`
FetchStats(S, c) ==
    LET reqs == Forget(Abort(S.requests, S.abortControllerRef))
    IN [S EXCEPT !.abortControllerRef = Len(reqs) + 1,
                 !.requests = Append(reqs, NewRequest(c)),
                 !.loading = TRUE,
                 !.error = errNull,
                 !.fetched = Append(@, Endpoint(c))]

(***************************************************************************)
(* The effect: fetch on mount and on every change of fetchStats, and the   *)
(* interval timer.                                                         *)
(***************************************************************************)
\* the id setInterval returns
NewIntervalId(S) == IF S.intervals = {} THEN 1
                    ELSE 1 + CHOOSE i \in {t.id : t \in S.intervals} :
                                 \A t \in S.intervals : t.id <= i

EffectRun(S, c) ==
    LET F == FetchStats(S, c)
        id == NewIntervalId(F)
    IN [F EXCEPT !.intervals = @ \cup {[id |-> id, fetchStats |-> c]},
                 !.intervalId = id]

\* a cleanup that aborts but leaves the timer running (faulty variant)
EffectCleanupKeepTimer(S) ==
    [S EXCEPT !.requests = Abort(@, S.abortControllerRef)]

\* the effect's cleanup: clearInterval(intervalId) and the abort
EffectCleanup(S) ==
    [S EXCEPT !.intervals = {t \in @ : t.id # S.intervalId},
              !.requests = Abort(@, S.abortControllerRef)]

\* the re-render after a handler: the effect re-runs iff fetchStats changed
Rerender(S, old, new) ==
    IF new = old THEN S ELSE EffectRun(EffectCleanup(S), new)

Apply(S) ==
    /\ abortControllerRef' = S.abortControllerRef
    /\ requests' = S.requests
    /\ loading' = S.loading
    /\ error' = S.error
    /\ intervals' = S.intervals
    /\ intervalId' = S.intervalId
    /\ fetched' = S.fetched

\* the fetchStats calls awaiting their fetch
Pending == {r \in 1..Len(requests) : requests[r].pc = "await"}

\* a step may issue n more requests
Room(n) == Cardinality(Pending) + n <= MaxPending

(***************************************************************************)
(* Initial state: the first render, before the effect has run.             *)
(***************************************************************************)
\* the ratio card before StatsContent has rendered
NoRatio == [kind |-> "none", hundredths |-> 0, wins |-> 0, losses |-> 0]

\* no exportData call yet: `exportData` holds the latest call of exportData,
\* the stats and timeframe of the render it was called from and its gameStats
NoExport == [pc |-> "idle", stats |-> null, timeframe |-> "", gameStats |-> <<>>]

\* no file downloaded by the latest exportData call
NoArtifact == [kind |-> "none", timeframe |-> "", rows |-> <<>>]

\* no relay request handled, nothing rendered by StatsContent, no export
InitOthers ==
    /\ relay = <<>>
    /\ winLossRatio = NoRatio
    /\ exportLoading = FALSE
    /\ exportData = NoExport
    /\ artifact = NoArtifact

Init ==
    /\ version \in Versions
    /\ phase = "rendered"
    /\ timeframe = "overall"
    /\ stats = null
    /\ selectedGame = ""
    /\ loading = TRUE
    /\ activeTab = "overall"
    /\ error = errNull
    /\ abortControllerRef = 0
    /\ requests = <<>>
    /\ intervals = {}
    /\ intervalId = 0
    /\ lastResponse = NoOutcome
    /\ fetched = <<>>
    /\ InitOthers

(***************************************************************************)
(* Actions.                                                                *)
(***************************************************************************)
\* the effect runs after the first render
Mount ==
    /\ phase = "rendered"
    /\ Room(1)
    /\ phase' = "mounted"
    /\ Apply(EffectRun(Cur, CurrentClosure))
    /\ UNCHANGED <<others, lastResponse, version, timeframe, stats, selectedGame, activeTab>>

\* the effect's cleanup runs when the component unmounts
Unmount ==
    /\ phase = "mounted"
    /\ phase' = "unmounted"
    /\ Apply(EffectCleanup(Cur))
    /\ UNCHANGED <<others, lastResponse, version, timeframe, stats, selectedGame, activeTab>>

\* an interval timer fires: it calls the fetchStats its effect captured
Tick ==
    /\ Room(1)
    /\ \E t \in intervals : Apply(FetchStats(Cur, t.fetchStats))
    /\ UNCHANGED <<others, lastResponse, version, phase, timeframe, stats, selectedGame, activeTab>>

\* revision 2: the Refresh button (disabled while loading)
HandleRefresh ==
    /\ version = 2
    /\ phase = "mounted"
    /\ ~loading
    /\ Room(1)
    /\ Apply(FetchStats(Cur, CurrentClosure))
    /\ UNCHANGED <<others, lastResponse, version, phase, timeframe, stats, selectedGame, activeTab>>

\* StatsSection (timeframe bar, game select) is rendered
StatsSectionShown == activeTab \in {"overall", "game"}

\* revision 1: a timeframe button calls handleTimeframeChange
HandleTimeframeChange(newTimeframe) ==
    /\ version = 1
    /\ phase = "mounted"
    /\ StatsSectionShown
    /\ Room(2)
    /\ timeframe' = newTimeframe
    /\ stats' = null
    /\ Apply(Rerender(FetchStats(Cur, CurrentClosure), CurrentClosure,
                      Closure(newTimeframe, selectedGame, activeTab)))
    /\ UNCHANGED <<others, lastResponse, version, phase, selectedGame, activeTab>>

\* revision 1: the game select calls handleGameChange
HandleGameChange(newGame) ==
    /\ version = 1
    /\ phase = "mounted"
    /\ activeTab = "game"
    /\ Room(2)
    /\ selectedGame' = newGame
    /\ stats' = null
    /\ Apply(Rerender(FetchStats(Cur, CurrentClosure), CurrentClosure,
                      Closure(timeframe, newGame, activeTab)))
    /\ UNCHANGED <<others, lastResponse, version, phase, timeframe, activeTab>>

\* a handleTabChange that keeps the selected game on every tab (faulty variant)
GameAfterTabChangeKeep(newTab, game) == game

\* handleTabChange: if (newTab === 'overall') setSelectedGame('')
GameAfterTabChange(newTab, game) == IF newTab = "overall" THEN "" ELSE game

\* revision 1: the tab bar calls handleTabChange
HandleTabChange(newTab) ==
    /\ version = 1
    /\ phase = "mounted"
    /\ Room(2)
    /\ activeTab' = newTab
    /\ stats' = null
    /\ selectedGame' = GameAfterTabChange(newTab, selectedGame)
    /\ Apply(Rerender(FetchStats(Cur, CurrentClosure), CurrentClosure,
                      Closure(timeframe, selectedGame', newTab)))
    /\ UNCHANGED <<others, lastResponse, version, phase, timeframe>>

\* revision 2: a timeframe button calls the raw setter setTimeframe
SetTimeframe(newTimeframe) ==
    /\ version = 2
    /\ phase = "mounted"
    /\ Room(1)
    /\ timeframe' = newTimeframe
    /\ Apply(Rerender(Cur, CurrentClosure,
                      Closure(newTimeframe, selectedGame, activeTab)))
    /\ UNCHANGED <<others, lastResponse, version, phase, stats, selectedGame, activeTab>>

\* what fetch(endpoint, {signal}) and response.json() deliver to request r
Delivered(r, outcome) == IF requests[r].aborted THEN AbortError ELSE outcome

\* the try/catch of fetchStats after the awaited fetch delivered o:
\* where the call ends, and what it leaves in `stats` and `error`
TryCatch(o, st, err) ==
    IF o.kind = "abort"
    THEN \* AbortError: logged, nothing surfaced
         [pc |-> "aborted", stats |-> st, error |-> err]
    ELSE IF o.kind = "network"
    THEN [pc |-> "failed", stats |-> st, error |-> "Failed to fetch"]
    ELSE IF ~ok(o.status)
    THEN [pc |-> "failed", stats |-> st, error |-> StatusMessage(o.status)]
    ELSE IF o.body = Unparseable
    THEN [pc |-> "failed", stats |-> st, error |-> "Unexpected token in JSON"]
    ELSE IF falsy(o.body) \/ typeof(o.body) # "object"
    THEN [pc |-> "failed", stats |-> st, error |-> "Invalid data format received"]
    ELSE [pc |-> "done", stats |-> o.body, error |-> errNull]

\* a finally block that leaves `loading` alone after an abort (faulty variant)
FinallySkipAbort(o, ld) == IF o.kind = "abort" THEN ld ELSE FALSE

\* the finally block of fetchStats: the value it leaves in `loading`
Finally(o, ld) == FALSE

\* the rest of fetchStats for request r: the awaited fetch settles
Settle(r, outcome) ==
    /\ r \in Pending
    /\ LET o == Delivered(r, outcome)
           end == TryCatch(o, stats, error)
       IN /\ requests' = Ended(requests, r, end.pc)
          /\ abortControllerRef' = IF r < abortControllerRef
                                   THEN abortControllerRef - 1
                                   ELSE abortControllerRef
          /\ stats' = end.stats
          /\ error' = end.error
          /\ loading' = Finally(o, loading)
          /\ lastResponse' = o
    /\ fetched' = <<>>
    /\ UNCHANGED <<version, phase, timeframe, selectedGame, activeTab,
                   intervals, intervalId, others>>

Next ==
    \/ Mount
    \/ Unmount
    \/ Tick
    \/ HandleRefresh
    \/ \E tf \in TimeframeInputs : HandleTimeframeChange(tf)
    \/ \E g \in GameInputs : HandleGameChange(g)
    \/ \E tab \in tabs : HandleTabChange(tab)
    \/ \E tf \in TimeframeInputs : SetTimeframe(tf)
    \/ \E r \in Pending : \E o \in Outcomes(requests[r].endpoint) : Settle(r, o)

Spec == Init /\ [][Next]_vars

(***************************************************************************)
(* Vocabulary of the properties.                                           *)
(***************************************************************************)
\* this step is the settling of the pending fetchStats call r
SettlesIn(r) ==
    /\ r \in Pending
    /\ \E pc \in {"aborted", "failed", "done"} : requests' = Ended(requests, r, pc)

\* call r has been superseded: it is not the latest fetchStats call
Superseded(r) == r # abortControllerRef

\* the fetchStats requests that are pending and not aborted
Live == {r \in Pending : ~requests[r].aborted}

\* this step changes one of the parameters (timeframe, selectedGame, activeTab)
ParamChange == CurrentClosure' # CurrentClosure

\* outcome o is a failure: network error, non-2xx status, or a body that is
\* not a JSON object
IsFailure(o) ==
    \/ o.kind = "network"
    \/ o.kind = "response" /\ (~ok(o.status) \/ o.body.type # "object")

\* outcome o is a 2xx response whose body parses to a JSON object
IsSuccess(o) == o.kind = "response" /\ ok(o.status) /\ o.body.type = "object"

(***************************************************************************)
(* C1: when a fetchStats call that has been superseded by a later call     *)
(* settles, it writes neither `stats` nor `error`.                         *)
(***************************************************************************)
C1_SupersededNeverWrites ==
    [][\A r \in 1..Len(requests) :
          (SettlesIn(r) /\ Superseded(r)) => UNCHANGED <<stats, error>>]_vars

\* call B has stored its result, and the call A it superseded settled after
\* that: `stats` is B's result
C1_Witness ==
    /\ phase = "mounted"
    /\ lastResponse = AbortError
    /\ Len(requests) = 1
    /\ requests[1].pc = "done"
    /\ stats = JsonObject(requests[1].endpoint, 1)
    /\ error = errNull

(***************************************************************************)
(* C2: at most one fetchStats request is both pending and not aborted.     *)
(***************************************************************************)
C2_AtMostOneLive == Cardinality(Live) <= 1

\* three calls are pending at once, and only the last is not aborted
C2_Witness ==
    /\ Len(requests) = 3
    /\ Pending = {1, 2, 3}
    /\ Live = {3}

(***************************************************************************)
(* C3: the settling of an aborted fetchStats call changes none of `stats`, *)
(* `error`, `loading`.                                                     *)
(***************************************************************************)
C3_CancelledSettleIsNoOp ==
    [][\A r \in 1..Len(requests) :
          (SettlesIn(r) /\ requests[r].aborted)
              => UNCHANGED <<stats, error, loading>>]_vars

(***************************************************************************)
(* C4: unmounting clears the interval timer and aborts the outstanding     *)
(* request, and once unmounted `stats`, `error` and `loading` are never    *)
(* written again.                                                          *)
(***************************************************************************)
C4_NoUpdateAfterUnmount ==
    [][/\ phase' = "unmounted" => (intervals' = {} /\ Live' = {})
       /\ phase = "unmounted" => UNCHANGED <<stats, error, loading>>]_vars

(***************************************************************************)
(* C5: when a fetchStats request that was not cancelled fails (network     *)
(* error, non-2xx status, body not a JSON object), `error` becomes a       *)
(* non-empty message and `stats` keeps its value.                          *)
(***************************************************************************)
C5_FailureKeepsStats ==
    [][\A r \in 1..Len(requests) :
          (SettlesIn(r) /\ ~requests[r].aborted /\ IsFailure(lastResponse'))
              => /\ error' \notin {errNull, ""}
                 /\ stats' = stats]_vars

(***************************************************************************)
(* C6: when a fetchStats request that was not cancelled receives a 2xx     *)
(* response whose body is a JSON object, `stats` becomes that body and     *)
(* `error` null; a body that is not a JSON object is never stored.         *)
(***************************************************************************)
C6_OnlyObjectsStored ==
    [][/\ \A r \in 1..Len(requests) :
            (SettlesIn(r) /\ ~requests[r].aborted /\ IsSuccess(lastResponse'))
                => /\ stats' = lastResponse'.body
                   /\ error' = errNull
       /\ stats'.type \in {"null", "object"}]_vars

(***************************************************************************)
(* C7: whenever a fetchStats call settles (success, surfaced failure or    *)
(* cancellation) `loading` is false right after.                           *)
(***************************************************************************)
C7_SettleClearsLoading ==
    [][\A r \in 1..Len(requests) : SettlesIn(r) => loading' = FALSE]_vars

\* the latest call has failed, and a cancelled call settled after it
C7_Witness ==
    /\ lastResponse = AbortError
    /\ Len(requests) = 1
    /\ requests[1].pc = "failed"
    /\ error # errNull
    /\ ~loading

(***************************************************************************)
(* C8: every user operation that changes a parameter clears `stats` to     *)
(* null and fetches, and every request it issues targets the endpoint of   *)
(* the new parameter values.                                               *)
(***************************************************************************)
C8_ParamChangeRefetchesNew ==
    [][ParamChange
          => /\ stats' = null
             /\ fetched' # <<>>
             /\ \A i \in 1..Len(fetched') : fetched'[i] = Endpoint(CurrentClosure')]_vars

(***************************************************************************)
(* C9 (as claimed): switching away from the game tab, a game being         *)
(* selected, leaves `selectedGame` empty, whatever the target tab.         *)
(***************************************************************************)
C9_LeavingGameTabClears ==
    [][(activeTab = "game" /\ selectedGame # "" /\ activeTab' # "game")
          => selectedGame' = ""]_vars

(***************************************************************************)
(* C9 (amended): switching from the game tab to "overall" leaves           *)
(* `selectedGame` empty; switching to help, realities or about leaves      *)
(* `selectedGame` as it was.                                               *)
(***************************************************************************)
C9_OnlyOverallClears ==
    [][(activeTab = "game" /\ selectedGame # "" /\ activeTab' # "game")
          => selectedGame' = (IF activeTab' = "overall" THEN "" ELSE selectedGame)]_vars

\* the switch from the game tab (a game selected) to overall has just
\* happened: the handler's own request went to the game endpoint, the
\* effect's to the overall one
C9_Witness ==
    /\ activeTab = "overall"
    /\ selectedGame = ""
    /\ Len(fetched) = 2
    /\ Len(fetched[1]) = 4
    /\ fetched[2] = <<"stats", timeframe>>

(***************************************************************************)
(* C10: switching from the game tab (a game selected) to "overall" clears  *)
(* `selectedGame` and issues exactly one request, to /stats/{timeframe}.   *)
(***************************************************************************)
C10_OneOverallFetch ==
    [][(activeTab = "game" /\ selectedGame # "" /\ activeTab' = "overall")
          => /\ selectedGame' = ""
             /\ fetched' = << <<"stats", timeframe>> >>]_vars

(***************************************************************************)
(* C17: while the dashboard is mounted exactly one interval timer is       *)
(* active, the one the latest effect run created, and it calls fetchStats  *)
(* with the current parameter values; before the mount and after the       *)
(* unmount no timer is active.                                             *)
(***************************************************************************)
C17_OneTimerWhileMounted ==
    /\ phase = "mounted" =>
          /\ Cardinality(intervals) = 1
          /\ \A t \in intervals : t.id = intervalId /\ t.fetchStats = CurrentClosure
    /\ phase # "mounted" => intervals = {}

\* revision 1, after a change of timeframe: a tick has fetched the new timeframe
C17_Witness ==
    /\ version = 1
    /\ phase = "mounted"
    /\ timeframe = "hourly"
    /\ fetched = << <<"stats", "hourly">> >>
    /\ Cardinality(intervals) = 1

(***************************************************************************)
(* C18: whenever the latest fetchStats request is pending and not aborted, *)
(* `loading` is true.                                                      *)
(***************************************************************************)
C18_LoadingWhileLatestLive == abortControllerRef \in Live => loading

(***************************************************************************)
(* C19: whenever `stats` holds a statistics object, it is the body of a    *)
(* response to the request target built from the current timeframe,        *)
(* activeTab and selectedGame.                                             *)
(***************************************************************************)
C19_StatsOfCurrentParameters ==
    stats.type = "object" => stats.endpoint = Endpoint(CurrentClosure)

(***************************************************************************)
(* The request target of fetchStats, for every timeframe, tab and game:    *)
(* fetchStats is called once from a render holding any parameter values.   *)
(***************************************************************************)
\* the catalog names and the SelectItem values made of them
GameNames == {games[i] : i \in 1..Len(games)}
                \cup {toLowerCase(games[i]) : i \in 1..Len(games)}

\* the lower-cased catalog names
LowerCaseNames == {LowerCaseOf[n] : n \in DOMAIN LowerCaseOf}

InitEndpoint ==
    /\ version \in Versions
    /\ phase = "mounted"
    /\ timeframe \in {timeframes[i] : i \in 1..Len(timeframes)}
    /\ activeTab \in tabs
    /\ selectedGame \in GameNames \cup {""}
    /\ stats = null
    /\ loading = FALSE
    /\ error = errNull
    /\ abortControllerRef = 0
    /\ requests = <<>>
    /\ intervals = {}
    /\ intervalId = 0
    /\ lastResponse = NoOutcome
    /\ fetched = <<>>
    /\ InitOthers

\* fetchStats() from the current render
FetchStatsCall ==
    /\ fetched = <<>>
    /\ Apply(FetchStats(Cur, CurrentClosure))
    /\ UNCHANGED <<others, lastResponse, version, phase, timeframe, stats,
                   selectedGame, activeTab>>

NextEndpoint == FetchStatsCall

SpecEndpoint == InitEndpoint /\ [][NextEndpoint]_vars

(***************************************************************************)
(* C11: the request target has the four segments stats/game/{timeframe}/   *)
(* {lower-cased selectedGame} exactly when activeTab is "game" and a game  *)
(* is selected, and is stats/{timeframe} in every other case.              *)
(***************************************************************************)
C11_EndpointChoice ==
    fetched # <<>> =>
        LET ep == fetched[1]
            gameTarget == activeTab = "game" /\ selectedGame # ""
        IN /\ Len(fetched) = 1
           /\ ep[1] = "stats"
           /\ ((Len(ep) = 4) <=> gameTarget)
           /\ (gameTarget =>
                 (/\ ep[2] = "game"
                  /\ ep[3] = timeframe
                  /\ ep[4] \in LowerCaseNames
                  /\ (\E i \in 1..Len(games) :
                        (/\ selectedGame \in {games[i], LowerCaseOf[games[i]]}
                         /\ ep[4] = LowerCaseOf[games[i]]))))
           /\ (~gameTarget => (Len(ep) = 2 /\ ep[2] = timeframe))

\* the game tab with the catalog name "Dice" selected: the target ends in "dice"
C11_Witness ==
    /\ fetched = << <<"stats", "game", "weekly", "dice">> >>
    /\ activeTab = "game"
    /\ selectedGame = "Dice"

(***************************************************************************)
(* The proxy relay: GET of src/app/api/proxy/[...path]/route.ts.  `relay`  *)
(* lists the requests it has handled: what happened upstream, what was     *)
(* thrown inside the try block, and the response it returned.              *)
(***************************************************************************)
\* the path after /api/proxy/ of the requests the model sends
RelayPath == <<"stats", "overall">>

\* the statuses the upstream answers with
UpstreamStatuses == {200, 201, 404, 500}

\* what can happen upstream of a relay request
Upstream ==
    {[kind |-> "connect", cause |-> c, status |-> 0, body |-> null] :
        c \in {"ECONNREFUSED", "ENOTFOUND"}}
    \cup {[kind |-> "timeout", cause |-> "TIMEOUT", status |-> 0, body |-> null]}
    \cup {[kind |-> "response", cause |-> "", status |-> st, body |-> b] :
            st \in UpstreamStatuses, b \in Bodies(RelayPath)}

NoError == [name |-> "", message |-> ""]

FetchFailed == [name |-> "TypeError", message |-> "fetch failed"]

\* `HTTP error! status: ${response.status}`
HttpError(status) ==
    [name |-> "Error",
     message |-> CASE status = 404 -> "HTTP error! status: 404"
                   [] status = 500 -> "HTTP error! status: 500"
                   [] OTHER -> "HTTP error! status"]

JsonSyntaxError == [name |-> "SyntaxError", message |-> "Unexpected token in JSON"]

\* the errors the try block can throw when u happens upstream.  The handler sets
\* no timeout of its own: a timeout reaches it as whatever the runtime's fetch
\* or body reader throws, a TypeError 'fetch failed' or another error
Thrown(u) ==
    IF u.kind = "connect" THEN {FetchFailed}
    ELSE IF u.kind = "timeout"
    THEN {FetchFailed, [name |-> "TypeError", message |-> "terminated"]}
    ELSE IF ~ok(u.status) THEN {HttpError(u.status)}
    ELSE IF u.body = Unparseable THEN {JsonSyntaxError}
    ELSE {NoError}

\* NextResponse.json(body, {status})
NextResponseJson(body, status) == [status |-> status, body |-> body]

ErrorEnvelope(message) == [type |-> "envelope", error |-> message]

\* a catch block that tests the exception's type only (faulty variant)
RelayCatchAnyTypeError(err) ==
    IF err.name = "TypeError"
    THEN NextResponseJson(
             ErrorEnvelope("Unable to connect to the API server. Please try again later."),
             503)
    ELSE NextResponseJson(
             ErrorEnvelope("An unexpected error occurred. Please try again later."),
             500)

\* the catch block of GET
RelayCatch(err) ==
    IF err.name = "TypeError" /\ err.message = "fetch failed"
    THEN NextResponseJson(
             ErrorEnvelope("Unable to connect to the API server. Please try again later."),
             503)
    ELSE NextResponseJson(
             ErrorEnvelope("An unexpected error occurred. Please try again later."),
             500)

\* a handler that reports the exception's own message (faulty variant)
RelayResponseLeaking(u, err) ==
    IF err = NoError
    THEN NextResponseJson(u.body, 200)
    ELSE NextResponseJson(ErrorEnvelope(err.message), RelayCatch(err).status)

\* the response of GET when u happens upstream and the try block throws err
RelayResponse(u, err) ==
    IF err = NoError THEN NextResponseJson(u.body, 200) ELSE RelayCatch(err)

InitRelay ==
    /\ version = 2
    /\ phase = "rendered"
    /\ timeframe = "overall"
    /\ stats = null
    /\ selectedGame = ""
    /\ loading = TRUE
    /\ activeTab = "overall"
    /\ error = errNull
    /\ abortControllerRef = 0
    /\ requests = <<>>
    /\ intervals = {}
    /\ intervalId = 0
    /\ lastResponse = NoOutcome
    /\ fetched = <<>>
    /\ InitOthers

\* one invocation of GET, from the request to the response
GET(u, err) ==
    /\ Len(relay) < MaxRelay
    /\ err \in Thrown(u)
    /\ relay' = Append(relay, [upstream |-> u, thrown |-> err,
                               response |-> RelayResponse(u, err)])
    /\ UNCHANGED <<version, phase, timeframe, stats, selectedGame, loading,
                   activeTab, error, abortControllerRef, requests, intervals,
                   intervalId, lastResponse, fetched,
                   winLossRatio, exportLoading, exportData, artifact>>

NextRelay == \E u \in Upstream : \E err \in Thrown(u) : GET(u, err)

SpecRelay == InitRelay /\ [][NextRelay]_vars

\* the upstream answered 2xx with a body that parses
UpstreamSuccess(u) == u.kind = "response" /\ ok(u.status) /\ u.body # Unparseable

IsEnvelope(body) == body.type = "envelope" /\ body.error # ""

(***************************************************************************)
(* C12 (as claimed): a 2xx upstream response with a parseable body yields  *)
(* 200 with that body; a connection failure yields 503 with an {error}     *)
(* body; every other failure (non-2xx, parse failure, timeout) yields 500  *)
(* with an {error} body.                                                   *)
(***************************************************************************)
C12_RelayStatuses ==
    \A i \in 1..Len(relay) :
        LET u == relay[i].upstream
            res == relay[i].response
        IN /\ UpstreamSuccess(u) => res = [status |-> 200, body |-> u.body]
           /\ u.kind = "connect" => (res.status = 503 /\ IsEnvelope(res.body))
           /\ (~UpstreamSuccess(u) /\ u.kind # "connect")
                 => (res.status = 500 /\ IsEnvelope(res.body))

(***************************************************************************)
(* C12 (amended): as claimed, except that a timeout yields 503 when the    *)
(* runtime reports it as the TypeError 'fetch failed' and 500 when it      *)
(* reports it as any other error; no status but 200, 503, 500 is returned. *)
(***************************************************************************)
C12_RelayStatusesByError ==
    \A i \in 1..Len(relay) :
        LET u == relay[i].upstream
            res == relay[i].response
        IN /\ res.status \in {200, 503, 500}
           /\ UpstreamSuccess(u) => res = [status |-> 200, body |-> u.body]
           /\ u.kind = "connect" => (res.status = 503 /\ IsEnvelope(res.body))
           /\ (u.kind = "response" /\ ~UpstreamSuccess(u))
                 => (res.status = 500 /\ IsEnvelope(res.body))
           /\ u.kind = "timeout"
                 => /\ IsEnvelope(res.body)
                    /\ res.status = (IF relay[i].thrown = FetchFailed THEN 503 ELSE 500)

\* the relay has answered a success, a refused connection and an upstream 404
C12_Witness ==
    \E i, j \in 1..Len(relay) :
        /\ relay[i].upstream.kind = "timeout" /\ relay[i].response.status = 503
        /\ relay[j].upstream.kind = "timeout" /\ relay[j].response.status = 500

\* the responses to upstream failures that are not connection failures
NonConnectionFailure(u) == u.kind = "response" /\ ~UpstreamSuccess(u)

\* the texts of the upstream outcome: its status line, the thrown message
UpstreamDetail(rec) ==
    {rec.thrown.message, HttpError(rec.upstream.status).message, rec.upstream.cause}

toFixed2(wins, losses) == (200 * wins + losses) \div (2 * losses)

RatioNumber(h, wins, losses) ==
    [kind |-> "number", hundredths |-> h, wins |-> wins, losses |-> losses]

RatioInfinity(wins, losses) ==
    [kind |-> "infinity", hundredths |-> 0, wins |-> wins, losses |-> losses]

\* revision 1: the winLossRatio string of StatsContent
winLossRatioText(wins, losses) ==
    IF losses > 0 THEN RatioNumber(toFixed2(wins, losses), wins, losses)
    ELSE IF wins > 0 THEN RatioInfinity(wins, losses)
    ELSE RatioNumber(0, wins, losses)

\* revision 2: calculateWinLossRatio, in hundredths (999.99 is 99999)
calculateWinLossRatio(wins, losses) ==
    IF losses = 0 THEN (IF wins > 0 THEN 99999 ELSE 0)
    ELSE toFixed2(wins, losses)

\* revision 2: AnimatedNumber with isRatio, at the end of the animation:
\* displayValue.toFixed(2) of a number that has two decimals already
AnimatedNumber(value, wins, losses) == RatioNumber(value, wins, losses)

InitRatio ==
    /\ version \in Versions
    /\ phase = "mounted"
    /\ timeframe = "overall"
    /\ stats = null
    /\ selectedGame = ""
    /\ loading = FALSE
    /\ activeTab = "overall"
    /\ error = errNull
    /\ abortControllerRef = 0
    /\ requests = <<>>
    /\ intervals = {}
    /\ intervalId = 0
    /\ lastResponse = NoOutcome
    /\ fetched = <<>>
    /\ InitOthers

\* StatsContent renders statistics with the given wins and losses
StatsContent(wins, losses) ==
    /\ winLossRatio' =
          IF version = 1 THEN winLossRatioText(wins, losses)
          ELSE AnimatedNumber(calculateWinLossRatio(wins, losses), wins, losses)
    /\ UNCHANGED <<version, phase, timeframe, stats, selectedGame, loading,
                   activeTab, error, abortControllerRef, requests, intervals,
                   intervalId, lastResponse, fetched,
                   relay, exportLoading, exportData, artifact>>

NextRatio == \E wins \in 0..MaxCount, losses \in 0..MaxCount : StatsContent(wins, losses)

SpecRatio == InitRatio /\ [][NextRatio]_vars

(***************************************************************************)
(* C16: the ratio shown is wins/losses rounded to two decimals when        *)
(* losses > 0, the infinite sentinel when losses = 0 and wins > 0, and     *)
(* 0.00 when both are 0.                                                   *)
(***************************************************************************)
C16_WinLossRatio ==
    winLossRatio.kind # "none" =>
        LET w == winLossRatio.wins
            l == winLossRatio.losses
            h == winLossRatio.hundredths
            d == IF 100 * w >= h * l THEN 100 * w - h * l ELSE h * l - 100 * w
        IN /\ (l > 0 => (winLossRatio.kind = "number" /\ 2 * d <= l))
           /\ ((l = 0 /\ w > 0) => winLossRatio.kind = "infinity")
           /\ ((l = 0 /\ w = 0) => (winLossRatio.kind = "number" /\ h = 0))

(***************************************************************************)
(* Revision 2: the export of StatsSection (exportData, fetchGameStats).    *)
(***************************************************************************)
\* the catalog games whose statistics the export of the model fetches
ExportGames == <<games[1], games[2]>>

\* fetchGameStats(game) up to `await fetch(...)`: a fetch with no abort signal
FetchGameStats(tf, game) ==
    [game |-> game,
     endpoint |-> <<"stats", "game", tf, toLowerCase(game)>>,
     pc |-> "await", outcome |-> NoOutcome, stats |-> null]

\* what fetchGameStats returns when its fetch delivered o: the parsed body, or
\* null from its catch block
GameStatsReturned(o) ==
    IF o.kind = "response" /\ ok(o.status) /\ o.body # Unparseable
    THEN o.body
    ELSE null

\* d.gamesPlayed.toLocaleString() does not throw: d has the statistics fields
HasStatsFields(d) == d.type = "object"

\* the try block of exportData throws while it builds the rows
ExportThrows(x) ==
    \/ ~HasStatsFields(x.stats)
    \/ \E i \in 1..Len(x.gameStats) :
          ~falsy(x.gameStats[i].stats) /\ ~HasStatsFields(x.gameStats[i].stats)

\* the rows of the individual games: one for every game with truthy gameData
GameRows(gs) ==
    LET kept == SelectSeq(gs, LAMBDA e : ~falsy(e.stats))
    IN [i \in 1..Len(kept) |-> kept[i].game]

\* the state the export's setter works on
ExportFlags == [exportLoading |-> exportLoading, loading |-> loading]

\* an export that drives the dashboard's loading flag as well (faulty variant)
setExportLoadingShared(S, value) ==
    [S EXCEPT !.exportLoading = value, !.loading = value]

\* setExportLoading(value)
setExportLoading(S, value) == [S EXCEPT !.exportLoading = value]

\* the Export button (disabled while exportLoading): exportData up to the await
ExportData ==
    /\ version = 2
    /\ phase = "mounted"
    /\ ~exportLoading
    /\ ~falsy(stats)
    /\ LET S == setExportLoading(ExportFlags, TRUE)
       IN exportLoading' = S.exportLoading /\ loading' = S.loading
    /\ exportData' =
          [pc |-> "await", stats |-> stats, timeframe |-> timeframe,
           gameStats |-> [i \in 1..Len(ExportGames) |->
                             FetchGameStats(timeframe, ExportGames[i])]]
    /\ artifact' = NoArtifact
    /\ UNCHANGED <<version, phase, timeframe, stats, selectedGame, activeTab,
                   error, abortControllerRef, requests, intervals, intervalId,
                   lastResponse, fetched, relay, winLossRatio>>

\* the fetch of fetchGameStats for the i-th game settles with outcome o
FetchGameStatsSettle(i, o) ==
    /\ exportData.pc = "await"
    /\ i \in 1..Len(exportData.gameStats)
    /\ exportData.gameStats[i].pc = "await"
    /\ exportData' =
          [exportData EXCEPT !.gameStats[i] =
              [@ EXCEPT !.pc = "done", !.outcome = o, !.stats = GameStatsReturned(o)]]
    /\ UNCHANGED <<version, phase, timeframe, stats, selectedGame, loading, activeTab,
                   error, abortControllerRef, requests, intervals, intervalId,
                   lastResponse, fetched, relay, winLossRatio, exportLoading, artifact>>

\* Promise.all has resolved: the rest of exportData (rows, download, finally)
ExportFinish ==
    /\ exportData.pc = "await"
    /\ \A i \in 1..Len(exportData.gameStats) : exportData.gameStats[i].pc = "done"
    /\ artifact' =
          IF ExportThrows(exportData)
          THEN NoArtifact
          ELSE [kind |-> "csv", timeframe |-> exportData.timeframe,
                rows |-> GameRows(exportData.gameStats)]
    /\ exportData' = [exportData EXCEPT !.pc = "done"]
    /\ LET S == setExportLoading(ExportFlags, FALSE)
       IN exportLoading' = S.exportLoading /\ loading' = S.loading
    /\ UNCHANGED <<version, phase, timeframe, stats, selectedGame, activeTab,
                   error, abortControllerRef, requests, intervals, intervalId,
                   lastResponse, fetched, relay, winLossRatio>>

\* the dashboard of revision 2 after its first fetch has stored a body
InitExport ==
    /\ version = 2
    /\ phase = "mounted"
    /\ timeframe \in TimeframeInputs
    /\ selectedGame = ""
    /\ activeTab = "overall"
    /\ stats \in {JsonObject(Endpoint(CurrentClosure), 1), JsonArray}
    /\ loading = FALSE
    /\ error = errNull
    /\ abortControllerRef = 1
    /\ requests = <<[endpoint |-> Endpoint(CurrentClosure), aborted |-> FALSE, pc |-> "done"]>>
    /\ intervals = {[id |-> 1, fetchStats |-> CurrentClosure]}
    /\ intervalId = 1
    /\ lastResponse = [kind |-> "response", status |-> 200, body |-> stats]
    /\ fetched = <<>>
    /\ InitOthers

NextExport ==
    \/ ExportData
    \/ \E i \in 1..Len(exportData.gameStats) :
          \E o \in Outcomes(exportData.gameStats[i].endpoint) : FetchGameStatsSettle(i, o)
    \/ ExportFinish

\* the export alone, with every outcome of every game's fetch
SpecExport == InitExport /\ [][NextExport]_vars

\* the fetch of game e has failed: network error, non-2xx status, or a body
\* that is not a JSON object
GameFetchFailed(e) == IsFailure(e.outcome)

(***************************************************************************)
(* C14: whatever games' fetches fail, an export called with statistics     *)
(* loaded completes and produces the artifact, with a row for each game    *)
(* whose fetch succeeded and no row for a game whose fetch failed.         *)
(***************************************************************************)
C14_ExportToleratesFailures ==
    (exportData.pc = "done" /\ HasStatsFields(exportData.stats)) =>
        /\ artifact.kind = "csv"
        /\ \A i \in 1..Len(exportData.gameStats) :
              LET e == exportData.gameStats[i]
              IN GameFetchFailed(e) <=>
                    (\A k \in 1..Len(artifact.rows) : artifact.rows[k] # e.game)

\* the outcomes of the fetches, of fetchGameStats and of fetchStats, while an
\* export runs beside the dashboard's own requests: a failure and a success
ExportOutcomes(e) ==
    {[kind |-> "network", status |-> 0, body |-> null],
     [kind |-> "response", status |-> 200, body |-> JsonObject(e, 1)]}

InitExportInterleaved == Init /\ version = 2

NextExportInterleaved ==
    \/ Mount
    \/ Tick
    \/ \E tf \in TimeframeInputs : SetTimeframe(tf)
    \/ \E r \in Pending : \E o \in ExportOutcomes(requests[r].endpoint) : Settle(r, o)
    \/ ExportData
    \/ \E i \in 1..Len(exportData.gameStats) :
          \E o \in ExportOutcomes(exportData.gameStats[i].endpoint) :
             FetchGameStatsSettle(i, o)
    \/ ExportFinish

\* the export beside timer ticks, changes of timeframe and fetch completions
SpecExportInterleaved == InitExportInterleaved /\ [][NextExportInterleaved]_vars

\* this step is a step of the export
ExportStep ==
    exportData' # exportData \/ artifact' # artifact \/ exportLoading' # exportLoading

(***************************************************************************)
(* C15: a step of the export leaves `stats`, `loading`, `error`, the       *)
(* stored abort handle and every fetchStats request (its abort flag        *)
(* included) unchanged, and a step of fetchStats leaves the export and its *)
(* pending requests unchanged.                                             *)
(***************************************************************************)
C15_ExportApartFromFetchStats ==
    [][/\ ExportStep =>
             UNCHANGED <<stats, loading, error, abortControllerRef, requests>>
       /\ (requests' # requests \/ abortControllerRef' # abortControllerRef)
             => UNCHANGED <<exportData, artifact, exportLoading>>]_vars

\* an export is running, one game's fetch has settled, and meanwhile the
\* timeframe has changed and a fetchStats request has been aborted
C15_Witness ==
    /\ exportData.pc = "await"
    /\ exportData.timeframe # timeframe
    /\ \E i \in 1..Len(exportData.gameStats) : exportData.gameStats[i].pc = "done"
    /\ \E i \in 1..Len(exportData.gameStats) : exportData.gameStats[i].pc = "await"
    /\ \E r \in Pending : requests[r].aborted

(***************************************************************************)
(* Progress of the dashboard that stays mounted, when the upstream answers  *)
(* every request whose fetch runs to its end with a 2xx response and a     *)
(* JSON object.  The user may change the parameters, and may stop.         *)
(***************************************************************************)
\* the fetch of the request at position r, which was not aborted, delivers its
\* successful response
SettleLive(r) ==
    /\ r \in Live
    /\ \E n \in 1..MaxSnapshot :
          Settle(r, [kind |-> "response", status |-> 200,
                     body |-> JsonObject(requests[r].endpoint, n)])

\* the fetch of the aborted request at position r rejects with AbortError
SettleAborted(r) ==
    /\ r \in Pending
    /\ requests[r].aborted
    /\ Settle(r, AbortError)

NextLive ==
    \/ Mount
    \/ Tick
    \/ HandleRefresh
    \/ \E tf \in TimeframeInputs : HandleTimeframeChange(tf)
    \/ \E g \in GameInputs : HandleGameChange(g)
    \/ \E tab \in tabs : HandleTabChange(tab)
    \/ \E tf \in TimeframeInputs : SetTimeframe(tf)
    \/ \E r \in 1..(MaxPending + 1) : SettleLive(r)
    \/ \E r \in 1..(MaxPending + 1) : SettleAborted(r)

\* the effect runs after the render, the interval timer keeps firing while it
\* is set, a rejected fetch settles, and a fetch that stays unaborted gets its
\* response; nothing bounds the time a response takes, so a request whose
\* abort comes first never gets one
FairLive ==
    /\ WF_vars(Mount)
    /\ WF_vars(Tick)
    /\ \A r \in 1..(MaxPending + 1) : WF_vars(SettleLive(r))
    /\ \A r \in 1..(MaxPending + 1) : WF_vars(SettleAborted(r))

SpecLive == Init /\ [][NextLive]_vars /\ FairLive

(***************************************************************************)
(* C20: if the dashboard stays mounted, the parameters stop changing and   *)
(* every request that is not aborted gets a successful JSON-object         *)
(* response, then eventually `stats` is non-null and `loading` is false.   *)
(***************************************************************************)
C20_EventuallyStats == <>[][~ParamChange]_vars => <>(stats # null /\ ~loading)

====
